---- MODULE Spec2Model ----
(***************************************************************************)
(* A model of elf32_rs (src/src/main.rs): the ELF32 header, program header *)
(* table and section header table parsers, Elf::load_buffer,               *)
(* Elf::read_program_bytes and main.                                       *)
(*                                                                         *)
(* The byte source is a BufReader over a seekable stream.  The stream is   *)
(* the sequence `file`; file offset o (0-based, as in the source) is       *)
(* file[o + 1].  A #[repr(C, packed)] record is modelled by the bytes of   *)
(* its memory, in declaration order; a field is decoded from them in the   *)
(* host's byte order (`order`), as a field access does.                    *)
(***************************************************************************)
EXTENDS Integers, Sequences, FiniteSets, TLC

\* ------------------------------------------------------------ bounds
\* The largest phnum / shnum of an input file.
MaxNum == 2

\* ------------------------------------------------- program constants
\* size_of::<ElfHeader>(), size_of::<ProgramHeader>(), size_of::<SectionHeader>()
ElfHeaderSize == 52
ProgramHeaderSize == 32
SectionHeaderSize == 40
\* Process exit statuses: Ok(()) from main, Err from main, a panic, a fatal signal.
ExitOk == 0
ExitErr == 1
ExitPanic == 101
ExitSignal == 139

\* ------------------------------------------------------ byte helpers
Min(a, b) == IF a < b THEN a ELSE b
Max(a, b) == IF a > b THEN a ELSE b

RECURSIVE Pow256(_)
Pow256(k) == IF k = 0 THEN 1 ELSE 256 * Pow256(k - 1)

\* The k-th byte (0-based, in memory order) of the n-byte value v in byte order o.
EncByte(v, n, k, o) ==
  IF o = "LE" THEN (v \div Pow256(k)) % 256 ELSE (v \div Pow256(n - 1 - k)) % 256

\* The n-byte unsigned field found at 0-based offset at of the bytes b, decoded in
\* byte order o (a field read of a packed struct in the host's byte order).
RECURSIVE DecodeBE(_, _, _)
DecodeBE(b, at, n) ==
  IF n = 0 THEN 0 ELSE 256 * DecodeBE(b, at, n - 1) + b[at + n]

RECURSIVE DecodeLE(_, _, _)
DecodeLE(b, at, n) ==
  IF n = 0 THEN 0 ELSE b[at + 1] + 256 * DecodeLE(b, at + 1, n - 1)

Field(b, at, n, o) ==
  IF o = "LE" THEN DecodeLE(b, at, n) ELSE DecodeBE(b, at, n)

\* ------------------------------------------------ ElfHeader's fields
\* Offsets follow from the declaration order and widths of the packed struct.
phoff(h, o) == Field(h, 28, 4, o)
shoff(h, o) == Field(h, 32, 4, o)
phentsize(h, o) == Field(h, 42, 2, o)
phnum(h, o) == Field(h, 44, 2, o)
shentsize(h, o) == Field(h, 46, 2, o)
shnum(h, o) == Field(h, 48, 2, o)

\* --------------------------------------------- ProgramHeader's fields
p_offset(ph, o) == Field(ph, 4, 4, o)
p_filesz(ph, o) == Field(ph, 16, 4, o)

\* <<offset, width>> of every field, in declaration order.
ProgramHeaderFields ==
  << <<0, 4>>, <<4, 4>>, <<8, 4>>, <<12, 4>>, <<16, 4>>, <<20, 4>>, <<24, 4>>, <<28, 4>> >>

SectionHeaderFields ==
  << <<0, 1>>, <<1, 1>>, <<2, 1>>, <<3, 1>>, <<4, 4>>, <<8, 4>>, <<12, 4>>, <<16, 4>>,
     <<20, 4>>, <<24, 4>>, <<28, 4>>, <<32, 4>>, <<36, 4>> >>

\* ------------------------------------------------------- input files
\* The input files: an ELF header at offset 0, the program header table right
\* after it, room for MaxNum records of each table one byte wider than natural,
\* and every other byte a non-zero pattern that differs between neighbours.
PhOff == ElfHeaderSize
ShOff == PhOff + MaxNum * (ProgramHeaderSize + 1)
FileLen == ShOff + MaxNum * (SectionHeaderSize + 1)
PastEnd == FileLen + 50

ByteOrders == {"LE", "BE"}
PhOffs == {PhOff, PastEnd}
ShOffs == {ShOff, PastEnd}
Nums == 0..MaxNum
PhEntSizes == {0, 20, ProgramHeaderSize, ProgramHeaderSize + 1}
ShEntSizes == {24, SectionHeaderSize, SectionHeaderSize + 1}
\* <<offset, filesz>> of segment 0: inside the file, across its end, empty.
Segments == { <<FileLen - 8, 4>>, <<FileLen - 2, 4>>, <<0, 0>> }
\* Stream lengths: empty, inside the ELF header, the header alone, inside the
\* program table, up to the section table, inside the section table, the whole file.
Lengths == {0, 20, ElfHeaderSize - 1, ElfHeaderSize, PhOff + 40, ShOff, ShOff + 50, FileLen}
\* The indices read_program_bytes is called with.
Indices == 0..MaxNum \cup {5}

Pattern(off) == 1 + (off % 7)

\* The byte at 0-based offset off of the input file described by the parameters:
\* c = [order, phoff, phentsize, phnum, shoff, shentsize, shnum, seg].
\* Program header i gets offset seg[1] + i and filesz seg[2] + i.
InputByte(off, c) ==
  LET recs == { i \in 0..(c.phnum - 1) :
                  /\ c.phentsize >= 20
                  /\ off >= c.phoff + i * c.phentsize
                  /\ off < c.phoff + i * c.phentsize + 20 }
      i == CHOOSE j \in recs : \A k \in recs : j >= k
      rel == off - (c.phoff + i * c.phentsize)
  IN  IF off >= 28 /\ off < 32 THEN EncByte(c.phoff, 4, off - 28, c.order)
      ELSE IF off >= 32 /\ off < 36 THEN EncByte(c.shoff, 4, off - 32, c.order)
      ELSE IF off >= 42 /\ off < 44 THEN EncByte(c.phentsize, 2, off - 42, c.order)
      ELSE IF off >= 44 /\ off < 46 THEN EncByte(c.phnum, 2, off - 44, c.order)
      ELSE IF off >= 46 /\ off < 48 THEN EncByte(c.shentsize, 2, off - 46, c.order)
      ELSE IF off >= 48 /\ off < 50 THEN EncByte(c.shnum, 2, off - 48, c.order)
      ELSE IF off >= ElfHeaderSize /\ recs # {} /\ rel >= 4 /\ rel < 8
        THEN EncByte(c.seg[1] + i, 4, rel - 4, c.order)
      ELSE IF off >= ElfHeaderSize /\ recs # {} /\ rel >= 16 /\ rel < 20
        THEN EncByte(c.seg[2] + i, 4, rel - 16, c.order)
      ELSE Pattern(off)

InputFile(len, c) == [k \in 1..len |-> InputByte(k - 1, c)]

InputParams ==
  [order : ByteOrders, phoff : PhOffs, phentsize : PhEntSizes, phnum : Nums,
   shoff : ShOffs, shentsize : ShEntSizes, shnum : Nums, seg : Segments]

\* -------------------------------------------------------------- state
VARIABLES
  file,             \* the stream's bytes
  order,            \* the host's byte order
  deviceOk,         \* whether the underlying stream still answers without an I/O error
  pos,              \* the BufReader's read position
  buffered,         \* the BufReader's buffer holds the stream from pos to its end
  pc,               \* where the process is
  started,          \* the sub-parsers load_buffer has called, in call order
  elf_header,       \* load_buffer's local elf_header (<<>> before it is read)
  program_headers,  \* load_buffer's local program_headers
  headers,          \* the running table parser's local `headers`
  image,            \* the Elf value load_buffer returned, or NoImage
  loadResult,       \* "none", "Ok", or the kind of the io::Error load_buffer returned
  lastCall,         \* the latest read_program_bytes call and what it returned, or NoCall
  spilled,          \* bytes the parsers wrote outside the record they were filling
  exit              \* the process's exit status, or NoExit

vars == <<file, order, deviceOk, pos, buffered, pc, started, elf_header,
          program_headers, headers, image, loadResult, lastCall, spilled, exit>>

NoImage == [loaded |-> FALSE]
NoCall == [called |-> FALSE]
NoExit == 0 - 1

Init ==
  /\ \E c \in InputParams, len \in Lengths :
       /\ file = InputFile(len, c)
       /\ order = c.order
  /\ deviceOk = TRUE
  /\ pos = 0
  /\ buffered = FALSE
  /\ pc = "start"
  /\ started = <<>>
  /\ elf_header = <<>>
  /\ program_headers = <<>>
  /\ headers = <<>>
  /\ image = NoImage
  /\ loadResult = "none"
  /\ lastCall = NoCall
  /\ spilled = 0
  /\ exit = NoExit

\* ---------------------------------------------------- the byte source
\* Bytes left in the stream from position p.
Avail(p) == IF p >= Len(file) THEN 0 ELSE Len(file) - p

\* The n stream bytes that start at 0-based offset p.
Bytes(p, n) == [k \in 1..n |-> file[p + k]]

\* BufReader::seek(SeekFrom::Start(off)): the underlying stream is positioned at
\* off, which may lie past its end, and the buffer is discarded; when the stream
\* fails, neither happens.
Seek(off) ==
  IF deviceOk
    THEN [ok |-> TRUE, kind |-> "none", pos |-> off, buffered |-> FALSE]
    ELSE [ok |-> FALSE, kind |-> "Other", pos |-> pos, buffered |-> buffered]

\* Fault variant of ReadExact: a successful read leaves the cursor where it was.

ReadExactMutNoAdvance(p, buf, n) ==
  IF n = 0
    THEN [ok |-> TRUE, kind |-> "none", data |-> <<>>, pos |-> p, buffered |-> buf]
  ELSE IF n <= Avail(p) /\ (buf \/ deviceOk)
    THEN [ok |-> TRUE, kind |-> "none", data |-> Bytes(p, n), pos |-> p,
          buffered |-> TRUE]
  ELSE IF ~deviceOk
    THEN [ok |-> FALSE, kind |-> "Other",
          data |-> IF buf THEN Bytes(p, Avail(p)) ELSE <<>>,
          pos |-> IF buf THEN p + Avail(p) ELSE p, buffered |-> buf]
  ELSE [ok |-> FALSE, kind |-> "UnexpectedEof", data |-> Bytes(p, Avail(p)),
        pos |-> p + Avail(p), buffered |-> TRUE]

\* Fault variant of ReadExact: a short stream is padded with zeros, not refused.

ReadExactMutZeroFill(p, buf, n) ==
  IF n = 0
    THEN [ok |-> TRUE, kind |-> "none", data |-> <<>>, pos |-> p, buffered |-> buf]
  ELSE IF ~deviceOk /\ (~buf \/ n > Avail(p))
    THEN [ok |-> FALSE, kind |-> "Other",
          data |-> IF buf THEN Bytes(p, Avail(p)) ELSE <<>>,
          pos |-> IF buf THEN p + Avail(p) ELSE p, buffered |-> buf]
  ELSE [ok |-> TRUE, kind |-> "none",
        data |-> [k \in 1..n |-> IF k <= Avail(p) THEN file[p + k] ELSE 0],
        pos |-> p + Min(n, Avail(p)), buffered |-> TRUE]

\* Fault variant of ReadExact: a single read(), which accepts a short count.

ReadExactMutShortOk(p, buf, n) ==
  IF n = 0
    THEN [ok |-> TRUE, kind |-> "none", data |-> <<>>, pos |-> p, buffered |-> buf]
  ELSE IF ~deviceOk /\ (~buf \/ n > Avail(p))
    THEN [ok |-> FALSE, kind |-> "Other",
          data |-> IF buf THEN Bytes(p, Avail(p)) ELSE <<>>,
          pos |-> IF buf THEN p + Avail(p) ELSE p, buffered |-> buf]
  ELSE [ok |-> TRUE, kind |-> "none", data |-> Bytes(p, Min(n, Avail(p))),
        pos |-> p + Min(n, Avail(p)), buffered |-> TRUE]

\* BufReader::read_exact into a slice of n bytes, the reader at position p with its
\* buffer filled (buf) or empty: the bytes copied into the slice (all n on success,
\* the bytes that were left on an unexpected end of stream) and the new position.
ReadExact(p, buf, n) ==
  IF n = 0
    THEN [ok |-> TRUE, kind |-> "none", data |-> <<>>, pos |-> p, buffered |-> buf]
  ELSE IF n <= Avail(p) /\ (buf \/ deviceOk)
    THEN [ok |-> TRUE, kind |-> "none", data |-> Bytes(p, n), pos |-> p + n,
          buffered |-> TRUE]
  ELSE IF ~deviceOk
    THEN [ok |-> FALSE, kind |-> "Other",
          data |-> IF buf THEN Bytes(p, Avail(p)) ELSE <<>>,
          pos |-> IF buf THEN p + Avail(p) ELSE p, buffered |-> buf]
  ELSE [ok |-> FALSE, kind |-> "UnexpectedEof", data |-> Bytes(p, Avail(p)),
        pos |-> p + Avail(p), buffered |-> TRUE]

\* Fault variant of TakeReadToEnd: read_to_end without the take(filesz).

TakeReadToEndMutNoLimit(p, buf, limit) ==
  IF ~deviceOk
    THEN [ok |-> FALSE, kind |-> "Other", data |-> <<>>, pos |-> p, buffered |-> buf]
    ELSE [ok |-> TRUE, kind |-> "none", data |-> Bytes(p, Avail(p)),
          pos |-> p + Avail(p), buffered |-> TRUE]

\* self.buffer.take(limit).read_to_end(..): every byte up to the end of the stream,
\* at most limit of them; reaching the end of the stream early is not an error.
TakeReadToEnd(p, buf, limit) ==
  IF limit = 0
    THEN [ok |-> TRUE, kind |-> "none", data |-> <<>>, pos |-> p, buffered |-> buf]
  ELSE IF ~deviceOk /\ (~buf \/ limit > Avail(p))
    THEN [ok |-> FALSE, kind |-> "Other", data |-> <<>>, pos |-> p, buffered |-> buf]
  ELSE [ok |-> TRUE, kind |-> "none", data |-> Bytes(p, Min(limit, Avail(p))),
        pos |-> p + Min(limit, Avail(p)), buffered |-> TRUE]

\* A record of `natural` bytes, zeroed (std::mem::zeroed) and then overwritten from
\* its first byte on with the bytes the read copied; bytes past the record's end
\* land outside it.
ZeroedThenFilled(natural, data) ==
  [k \in 1..natural |-> IF k <= Len(data) THEN data[k] ELSE 0]

\* How many of the bytes a read copied were written past the end of the record.
Spill(natural, copied) == Max(0, copied - natural)

\* Writing outside the record is undefined behaviour: the write may land in memory
\* nothing uses, and the parser goes on, or it may take the process down.  (A
\* slice longer than the record it starts at is already outside the language's
\* rules; only the bytes actually written through it are counted here.)
UbOutcomes(spill) == IF spill > 0 THEN {"continue", "crash"} ELSE {"continue"}

\* ------------------------------------------------------------- main
\* let filename = &args[1];  indexing panics when no argument was given.
MainStart ==
  /\ pc = "start"
  /\ \E hasArg \in BOOLEAN :
       IF hasArg THEN pc' = "open" /\ exit' = exit
                 ELSE pc' = "panicked" /\ exit' = ExitPanic
  /\ UNCHANGED <<file, order, deviceOk, pos, buffered, started, elf_header,
                 program_headers, headers, image, loadResult, lastCall, spilled>>

\* File::open(filename)?  and  BufReader::new(file).
MainOpen ==
  /\ pc = "open"
  /\ \E opened \in BOOLEAN :
       IF opened THEN pc' = "header" /\ exit' = exit
                 ELSE pc' = "exited" /\ exit' = ExitErr
  /\ UNCHANGED <<file, order, deviceOk, pos, buffered, started, elf_header,
                 program_headers, headers, image, loadResult, lastCall, spilled>>

\* ------------------------------------------------------- load_buffer
\* Fault variant of LoadFail: the error is kept but an image is built from what
\* was parsed so far.

LoadFailMutPartialImage(kind) ==
  /\ pc' = "loaded"
  /\ loadResult' = kind
  /\ image' = [loaded |-> TRUE, elf_header |-> elf_header,
               program_headers |-> program_headers, section_headers |-> headers]
  /\ elf_header' = <<>>
  /\ program_headers' = <<>>
  /\ headers' = <<>>
  /\ exit' = exit

\* A `?` of load_buffer: the error is returned and the locals are dropped.
LoadFail(kind) ==
  /\ pc' = "failed"
  /\ loadResult' = kind
  /\ elf_header' = <<>>
  /\ program_headers' = <<>>
  /\ headers' = <<>>
  /\ image' = image
  /\ exit' = exit

\* The process dies of the out-of-bounds write.
Crash ==
  /\ pc' = "crashed"
  /\ exit' = ExitSignal
  /\ UNCHANGED <<loadResult, elf_header, program_headers, headers, image>>

\* ElfHeader::read_elf_header: one read_exact of size_of::<ElfHeader>() bytes at
\* the stream's current position.
ReadElfHeader ==
  /\ pc = "header"
  /\ started' = Append(started, "header")
  /\ LET r == ReadExact(pos, buffered, ElfHeaderSize)
     IN  /\ pos' = r.pos
         /\ buffered' = r.buffered
         /\ IF r.ok
              THEN /\ elf_header' = ZeroedThenFilled(ElfHeaderSize, r.data)
                   /\ pc' = "ph_seek"
                   /\ UNCHANGED <<loadResult, program_headers, headers, image, exit>>
              ELSE LoadFail(r.kind)
  /\ UNCHANGED <<file, order, deviceOk, lastCall, spilled>>

\* ProgramHeader::read_program_headers, up to its loop: headers = vec![] and the
\* seek to phoff.
ReadProgramHeadersSeek ==
  /\ pc = "ph_seek"
  /\ started' = Append(started, "program")
  /\ LET s == Seek(phoff(elf_header, order))
     IN  /\ pos' = s.pos
         /\ buffered' = s.buffered
         /\ IF s.ok
              THEN /\ headers' = <<>>
                   /\ pc' = "ph_read"
                   /\ UNCHANGED <<loadResult, elf_header, program_headers, image, exit>>
              ELSE LoadFail(s.kind)
  /\ UNCHANGED <<file, order, deviceOk, lastCall, spilled>>

\* One turn of the loop: a zeroed record, a read_exact of phentsize bytes into a
\* slice that starts at the record, and the push.
ReadProgramHeader ==
  /\ pc = "ph_read"
  /\ Len(headers) < phnum(elf_header, order)
  /\ LET r == ReadExact(pos, buffered, phentsize(elf_header, order))
         spill == Spill(ProgramHeaderSize, Len(r.data))
     IN  /\ pos' = r.pos
         /\ buffered' = r.buffered
         /\ spilled' = spilled + spill
         /\ \E outcome \in UbOutcomes(spill) :
              IF outcome = "crash" THEN Crash
              ELSE IF r.ok
                THEN /\ headers' = Append(headers, ZeroedThenFilled(ProgramHeaderSize, r.data))
                     /\ UNCHANGED <<pc, loadResult, elf_header, program_headers, image, exit>>
                ELSE LoadFail(r.kind)
  /\ UNCHANGED <<file, order, deviceOk, started, lastCall>>

\* The loop is over: Ok(headers), bound to load_buffer's program_headers.
ReadProgramHeadersDone ==
  /\ pc = "ph_read"
  /\ Len(headers) >= phnum(elf_header, order)
  /\ program_headers' = headers
  /\ headers' = <<>>
  /\ pc' = "sh_seek"
  /\ UNCHANGED <<file, order, deviceOk, pos, buffered, started, elf_header, image,
                 loadResult, lastCall, spilled, exit>>

\* SectionHeader::read_section_headers, up to its loop.
ReadSectionHeadersSeek ==
  /\ pc = "sh_seek"
  /\ started' = Append(started, "section")
  /\ LET s == Seek(shoff(elf_header, order))
     IN  /\ pos' = s.pos
         /\ buffered' = s.buffered
         /\ IF s.ok
              THEN /\ headers' = <<>>
                   /\ pc' = "sh_read"
                   /\ UNCHANGED <<loadResult, elf_header, program_headers, image, exit>>
              ELSE LoadFail(s.kind)
  /\ UNCHANGED <<file, order, deviceOk, lastCall, spilled>>

\* One turn of the section loop.
ReadSectionHeader ==
  /\ pc = "sh_read"
  /\ Len(headers) < shnum(elf_header, order)
  /\ LET r == ReadExact(pos, buffered, shentsize(elf_header, order))
         spill == Spill(SectionHeaderSize, Len(r.data))
     IN  /\ pos' = r.pos
         /\ buffered' = r.buffered
         /\ spilled' = spilled + spill
         /\ \E outcome \in UbOutcomes(spill) :
              IF outcome = "crash" THEN Crash
              ELSE IF r.ok
                THEN /\ headers' = Append(headers, ZeroedThenFilled(SectionHeaderSize, r.data))
                     /\ UNCHANGED <<pc, loadResult, elf_header, program_headers, image, exit>>
                ELSE LoadFail(r.kind)
  /\ UNCHANGED <<file, order, deviceOk, started, lastCall>>

\* The section loop is over: Ok(headers), and load_buffer returns Ok(Self { .. }),
\* moving its locals into the image.
ReadSectionHeadersDone ==
  /\ pc = "sh_read"
  /\ Len(headers) >= shnum(elf_header, order)
  /\ image' = [loaded |-> TRUE, elf_header |-> elf_header,
               program_headers |-> program_headers, section_headers |-> headers]
  /\ loadResult' = "Ok"
  /\ elf_header' = <<>>
  /\ program_headers' = <<>>
  /\ headers' = <<>>
  /\ pc' = "loaded"
  /\ UNCHANGED <<file, order, deviceOk, pos, buffered, started, lastCall, spilled, exit>>

\* main's `?` on load_buffer's error: main returns Err.
MainLoadErr ==
  /\ pc = "failed"
  /\ pc' = "exited"
  /\ exit' = ExitErr
  /\ UNCHANGED <<file, order, deviceOk, pos, buffered, started, elf_header,
                 program_headers, headers, image, loadResult, lastCall, spilled>>

\* ------------------------------------------------ read_program_bytes
\* self.program_headers.get(idx): Some(header) for idx < len, None otherwise.
Get(v, idx) ==
  IF idx < Len(v) THEN [some |-> TRUE, value |-> v[idx + 1]] ELSE [some |-> FALSE]

\* What Elf::read_program_bytes(idx) does on the image, the reader as it stands:
\* status "panic" (the unwrap of None), "Err" (a `?`), or "Ok" with the bytes;
\* and where it leaves the reader.
ProgramBytes(idx) ==
  LET got == Get(image.program_headers, idx)
      s == Seek(p_offset(got.value, order))
      r == TakeReadToEnd(s.pos, s.buffered, p_filesz(got.value, order))
  IN  IF ~got.some
        THEN [status |-> "panic", kind |-> "none", bytes |-> <<>>,
              pos |-> pos, buffered |-> buffered]
      ELSE IF ~s.ok
        THEN [status |-> "Err", kind |-> s.kind, bytes |-> <<>>,
              pos |-> s.pos, buffered |-> s.buffered]
      ELSE IF ~r.ok
        THEN [status |-> "Err", kind |-> r.kind, bytes |-> <<>>,
              pos |-> r.pos, buffered |-> r.buffered]
      ELSE [status |-> "Ok", kind |-> "none", bytes |-> r.data,
            pos |-> r.pos, buffered |-> r.buffered]

\* Fault variant of Call: the header is taken out of program_headers (remove)
\* instead of borrowed (get).

CallMutRemove(idx, after) ==
  LET c == ProgramBytes(idx)
  IN  /\ lastCall' = [called |-> TRUE, idx |-> idx, from |-> pos, status |-> c.status,
                      kind |-> c.kind, bytes |-> c.bytes]
      /\ pos' = c.pos
      /\ buffered' = c.buffered
      /\ IF c.status = "panic"
           THEN pc' = "panicked" /\ exit' = ExitPanic /\ image' = image
           ELSE /\ pc' = after
                /\ exit' = exit
                /\ image' = [image EXCEPT !.program_headers =
                               [k \in 1..(Len(@) - 1) |-> IF k <= idx THEN @[k] ELSE @[k + 1]]]
      /\ UNCHANGED <<file, order, deviceOk, started, elf_header, program_headers,
                     headers, loadResult, spilled>>

\* A call of read_program_bytes(idx) that, when it returns, leaves the process at
\* `after`; a panic unwinds the process with status 101.
Call(idx, after) ==
  LET c == ProgramBytes(idx)
  IN  /\ lastCall' = [called |-> TRUE, idx |-> idx, from |-> pos, status |-> c.status,
                      kind |-> c.kind, bytes |-> c.bytes]
      /\ pos' = c.pos
      /\ buffered' = c.buffered
      /\ IF c.status = "panic"
           THEN pc' = "panicked" /\ exit' = ExitPanic
           ELSE pc' = after /\ exit' = exit
      /\ UNCHANGED <<file, order, deviceOk, started, elf_header, program_headers,
                     headers, image, loadResult, spilled>>

\* A caller that holds the image calls read_program_bytes with any index, any
\* number of times.
ReadProgramBytes(idx) ==
  /\ pc = "loaded"
  /\ Call(idx, "loaded")

\* main: let prog_bytes = elf.read_program_bytes(0);  the Result is kept, not `?`-ed.
MainExtract ==
  /\ pc = "loaded"
  /\ Call(0, "print")

\* main: the two println! of the image and of prog_bytes, and Ok(()).
MainPrint ==
  /\ pc = "print"
  /\ pc' = "exited"
  /\ exit' = ExitOk
  /\ UNCHANGED <<file, order, deviceOk, pos, buffered, started, elf_header,
                 program_headers, headers, image, loadResult, lastCall, spilled>>

\* ------------------------------------------------------ environment
\* The underlying stream starts to fail: from now on every seek and every read
\* that has to go to it returns an I/O error.
DeviceFail ==
  /\ deviceOk
  /\ pc \in {"header", "ph_seek", "ph_read", "sh_seek", "sh_read", "loaded"}
  /\ deviceOk' = FALSE
  /\ UNCHANGED <<file, order, pos, buffered, pc, started, elf_header, program_headers,
                 headers, image, loadResult, lastCall, spilled, exit>>

\* ------------------------------------------------- specifications
Next ==
  \/ MainStart
  \/ MainOpen
  \/ ReadElfHeader
  \/ ReadProgramHeadersSeek
  \/ ReadProgramHeader
  \/ ReadProgramHeadersDone
  \/ ReadSectionHeadersSeek
  \/ ReadSectionHeader
  \/ ReadSectionHeadersDone
  \/ MainLoadErr
  \/ \E idx \in Indices : ReadProgramBytes(idx)
  \/ MainExtract
  \/ MainPrint

\* A stream that never fails.
Spec == Init /\ [][Next]_vars

NextFault == Next \/ DeviceFail

\* A stream that may start to fail at any moment.
SpecFault == Init /\ [][NextFault]_vars

\* ------------------------------------------------------------ claims
\* Field number f of `fields` read from the record rec, and read from the stream
\* at 0-based offset at.
RecordField(rec, fields, f) == Field(rec, fields[f][1], fields[f][2], order)
StreamField(at, fields, f) == Field(file, at + fields[f][1], fields[f][2], order)

\* Every field of every record of the table equals the stream's bytes at
\* off + i * size.
TableMatchesStream(table, fields, off, size) ==
  \A i \in 0..(Len(table) - 1) :
    /\ off + (i + 1) * size <= Len(file)
    /\ Len(table[i + 1]) = size
    /\ \A f \in 1..Len(fields) :
         RecordField(table[i + 1], fields, f) = StreamField(off + i * size, fields, f)

\* C1: whenever load_buffer succeeded on a stream whose header declares
\* phentsize = 32 and shentsize = 40, the image holds exactly phnum program
\* headers and shnum section headers, and every field of the i-th program header
\* (section header) equals the stream's bytes at phoff + i*32 (shoff + i*40).
C1_TablesMatchStream ==
  (/\ image.loaded
   /\ phentsize(image.elf_header, order) = ProgramHeaderSize
   /\ shentsize(image.elf_header, order) = SectionHeaderSize)
  => /\ Len(image.program_headers) = phnum(image.elf_header, order)
     /\ Len(image.section_headers) = shnum(image.elf_header, order)
     /\ TableMatchesStream(image.program_headers, ProgramHeaderFields,
                           phoff(image.elf_header, order), ProgramHeaderSize)
     /\ TableMatchesStream(image.section_headers, SectionHeaderFields,
                           shoff(image.elf_header, order), SectionHeaderSize)

\* A load that succeeded with the natural entry sizes and full tables.
C1_Witness ==
  /\ image.loaded
  /\ phentsize(image.elf_header, order) = ProgramHeaderSize
  /\ shentsize(image.elf_header, order) = SectionHeaderSize
  /\ Len(image.program_headers) = MaxNum
  /\ Len(image.section_headers) = MaxNum

\* The program header the latest call addressed.
CalledHeader == image.program_headers[lastCall.idx + 1]
CallInRange == lastCall.called /\ lastCall.idx < Len(image.program_headers)
SegmentInside ==
  /\ p_offset(CalledHeader, order) <= Len(file)
  /\ p_filesz(CalledHeader, order) <= Len(file) - p_offset(CalledHeader, order)

\* C2: on a stream that does not fail, a read_program_bytes(i) call with i < phnum
\* whose segment lies inside the stream returns Ok with exactly filesz_i bytes, the
\* stream's bytes from offset_i on, wherever earlier calls left the cursor.
C2_SegmentBytes ==
  (image.loaded /\ CallInRange /\ SegmentInside)
  => /\ lastCall.status = "Ok"
     /\ Len(lastCall.bytes) = p_filesz(CalledHeader, order)
     /\ \A k \in 1..Len(lastCall.bytes) :
          lastCall.bytes[k] = file[p_offset(CalledHeader, order) + k]

\* Segment 1 is read right after segment 0: the cursor stood at segment 0's end.
C2_Witness ==
  /\ image.loaded
  /\ lastCall.called
  /\ lastCall.idx = 1
  /\ Len(image.program_headers) >= 2
  /\ SegmentInside
  /\ lastCall.status = "Ok"
  /\ Len(lastCall.bytes) > 0
  /\ lastCall.from = p_offset(image.program_headers[1], order)
                       + p_filesz(image.program_headers[1], order)
  /\ lastCall.from # p_offset(CalledHeader, order)

\* C5: once load_buffer has run on a stream shorter than the 52-byte ELF header,
\* it has returned an UnexpectedEof error: no panic, no image, no header.
C5_TruncatedHeader ==
  (Len(file) < ElfHeaderSize /\ started # <<>>)
  => /\ pc \in {"failed", "exited"}
     /\ loadResult = "UnexpectedEof"
     /\ ~image.loaded
     /\ elf_header = <<>>
     /\ started = <<"header">>

\* The 20-byte file, after load_buffer returned.
C5_Witness == Len(file) = 20 /\ pc = "failed" /\ loadResult = "UnexpectedEof"

\* C3: a read_program_bytes(idx) call with idx >= the number of program headers
\* returns an out-of-range error to its caller: no panic, no bytes.
C3_OutOfRangeIsAnError ==
  (image.loaded /\ lastCall.called /\ lastCall.idx >= Len(image.program_headers))
  => /\ lastCall.status = "Err"
     /\ lastCall.kind = "OutOfRange"
     /\ pc # "panicked"

\* C4: a read_program_bytes(i) call with a valid i whose segment runs past the end
\* of the stream returns an error, never Ok with fewer than filesz_i bytes.
C4_ShortSegmentIsAnError ==
  (image.loaded /\ CallInRange /\ ~SegmentInside)
  => /\ lastCall.status = "Err"
     /\ lastCall.kind = "UnexpectedEof"

\* The order in which load_buffer calls its sub-parsers.
ParseOrder == <<"header", "program", "section">>
IsPrefix(s, t) == Len(s) <= Len(t) /\ \A i \in 1..Len(s) : s[i] = t[i]
LoadFailed == loadResult \notin {"none", "Ok"}

\* C6: load_buffer calls the header, program table and section table parsers in
\* that order, each only after the one before it succeeded; once a parse has
\* failed its error is load_buffer's result, nothing is sought, read or started
\* any more, and there is no image; an image exists only after all three
\* succeeded, and then it holds all they parsed.
C6_LoadState ==
  /\ IsPrefix(started, ParseOrder)
  /\ Len(started) >= 2 /\ loadResult = "none" => Len(elf_header) = ElfHeaderSize
  /\ Len(started) = 3 /\ loadResult = "none"
       => Len(program_headers) = phnum(elf_header, order)
  /\ LoadFailed
       => ~image.loaded /\ elf_header = <<>> /\ program_headers = <<>> /\ headers = <<>>
  /\ loadResult = "none" => ~image.loaded
  /\ image.loaded
       => /\ started = ParseOrder
          /\ loadResult = "Ok"
          /\ Len(image.elf_header) = ElfHeaderSize
          /\ Len(image.program_headers) = phnum(image.elf_header, order)
          /\ Len(image.section_headers) = shnum(image.elf_header, order)

C6_LoadIsAllOrNothing ==
  /\ []C6_LoadState
  /\ [][LoadFailed => UNCHANGED <<started, pos, buffered, image, loadResult>>]_vars

\* load_buffer failed in the program header table: the section parser never ran.
C6_Witness ==
  /\ pc = "failed"
  /\ started = <<"header", "program">>
  /\ loadResult = "UnexpectedEof"

\* C7: once load_buffer has returned an image, no read_program_bytes call, whether
\* it returns Ok, returns an error or panics, changes the image's elf_header,
\* program_headers or section_headers.
C7_CallsKeepTheImage == [][image.loaded => image' = image]_vars

\* A call that returned an error, on an image with program headers.
C7_Witness ==
  /\ image.loaded
  /\ Len(image.program_headers) > 0
  /\ lastCall.called
  /\ lastCall.status = "Err"

\* The ELF header's table fields as the stream holds them at offset 0: what the
\* table parsers were given once the header parser has succeeded.
HeaderRead == Len(started) >= 2 /\ Len(file) >= ElfHeaderSize
S_phoff == Field(file, 28, 4, order)
S_shoff == Field(file, 32, 4, order)
S_phentsize == Field(file, 42, 2, order)
S_phnum == Field(file, 44, 2, order)
S_shentsize == Field(file, 46, 2, order)
S_shnum == Field(file, 48, 2, order)

\* Fewer than num * entsize bytes follow offset off (none do when off lies at or
\* past the end).
Underbacked(off, num, entsize) ==
  IF off >= Len(file) THEN num * entsize > 0 ELSE Len(file) - off < num * entsize

\* How each table parser ended.
PhSucceeded == pc = "sh_seek" \/ Len(started) = 3
PhFailed == Len(started) = 2 /\ LoadFailed
PhDied == Len(started) = 2 /\ pc = "crashed"
ShSucceeded == image.loaded
ShFailed == Len(started) = 3 /\ LoadFailed
ShDied == Len(started) = 3 /\ pc = "crashed"

\* C8 as claimed: a table parser that has ended did not succeed when the table's
\* offset lies past the end of the stream, whatever the record count, nor when
\* fewer than num * entsize bytes follow the offset.
C8_FailsPastTheEnd ==
  HeaderRead =>
    /\ PhSucceeded => ~(S_phoff > Len(file) \/ Underbacked(S_phoff, S_phnum, S_phentsize))
    /\ ShSucceeded => ~(S_shoff > Len(file) \/ Underbacked(S_shoff, S_shnum, S_shentsize))

\* C8 as amended: with at least one record of at least one byte to read, a table
\* parser that has ended on a table whose offset lies past the end of the stream,
\* or that fewer than num * entsize bytes follow, returned an UnexpectedEof error,
\* or died of an earlier write outside a record; a parser that succeeded had every
\* byte of every record in the stream.
C8_FailsWhenUnderbacked ==
  HeaderRead =>
    /\ (PhSucceeded \/ PhFailed \/ PhDied) /\ Underbacked(S_phoff, S_phnum, S_phentsize)
         => \/ PhFailed /\ loadResult = "UnexpectedEof"
            \/ PhDied /\ spilled > 0
    /\ (ShSucceeded \/ ShFailed \/ ShDied) /\ Underbacked(S_shoff, S_shnum, S_shentsize)
         => \/ ShFailed /\ loadResult = "UnexpectedEof"
            \/ ShDied /\ spilled > 0
    /\ PhSucceeded => S_phnum * S_phentsize = 0
                        \/ S_phoff + S_phnum * S_phentsize <= Len(file)
    /\ ShSucceeded => S_shnum * S_shentsize = 0
                        \/ S_shoff + S_shnum * S_shentsize <= Len(file)

\* The program table parser returned an error on a table that starts past the end.
C8_Witness ==
  /\ HeaderRead
  /\ PhFailed
  /\ S_phnum >= 1
  /\ S_phoff > Len(file)
  /\ loadResult = "UnexpectedEof"

\* C9: the process ends with status zero exactly when load_buffer and the
\* extraction of segment 0 both succeeded and the dump was printed; every failure
\* (no argument, open or load error, extraction error, no program header 0) ends
\* it with a non-zero status.
C9_ExitStatus ==
  pc \in {"exited", "panicked", "crashed"}
  => (exit = ExitOk <=> /\ image.loaded
                        /\ lastCall.called
                        /\ lastCall.idx = 0
                        /\ lastCall.status = "Ok")

\* The first min(entsize, natural) stream bytes at off, then zeros up to natural.
ZeroPadded(off, entsize, natural) ==
  [k \in 1..natural |-> IF k <= entsize THEN file[off + k] ELSE 0]

RecordsFollowEntrySize(table, off, entsize, natural) ==
  \A i \in 0..(Len(table) - 1) :
    /\ entsize = 0 \/ off + (i + 1) * entsize <= Len(file)
    /\ table[i + 1] = ZeroPadded(off + i * entsize, entsize, natural)

\* C10: whatever the declared entry size, record i of a table is read at
\* table offset + i * entsize, each read moves the stream by entsize, a record
\* holds the first min(entsize, natural size) bytes read and zeros after them,
\* and no byte is ever written outside a record.
C10_EntrySizeIsSafe ==
  /\ spilled = 0
  /\ pc = "ph_read"
       => /\ pos = phoff(elf_header, order) + Len(headers) * phentsize(elf_header, order)
          /\ RecordsFollowEntrySize(headers, phoff(elf_header, order),
                                    phentsize(elf_header, order), ProgramHeaderSize)
  /\ pc = "sh_read"
       => /\ pos = shoff(elf_header, order) + Len(headers) * shentsize(elf_header, order)
          /\ RecordsFollowEntrySize(headers, shoff(elf_header, order),
                                    shentsize(elf_header, order), SectionHeaderSize)

====
